---- MODULE Spec2Model ----
(***************************************************************************)
(* Episode catalog cache of identify_episode.py: the persisted catalog     *)
(* file with its staleness policy (is_cache_valid, load_cached_episodes,   *)
(* save_episodes_cache) and the two-phase remote fetch of                  *)
(* fetch_friends_episodes (sequential season discovery, then episode       *)
(* detail requests on a ThreadPoolExecutor).                               *)
(*                                                                         *)
(* Time is counted in units of 1/UnitsPerDay day.  The remote metadata     *)
(* source and the file system are the environment: each request picks its  *)
(* outcome when it is made, the clock advances between calls, and an       *)
(* existing cache file can be damaged between calls.                       *)
(***************************************************************************)
EXTENDS Integers, Sequences, FiniteSets, TLC

\* ---------------------------------------------------------------- constants
CACHE_EXPIRY_DAYS == 30
max_workers == 5

\* ------------------------------------------------------------------- bounds
\* number of seasons asked for (the code asks for range(1, 11))
MaxSeasons == 2
\* clock resolution: time units per day
UnitsPerDay == 2
\* number of clock advances in one behaviour of Spec
MaxTicks == 2
\* largest instant, in days, drawn for the Catalog Store operations
MaxAgeDays == 31

\* one clock advance: half the time-to-live
TickStep == (CACHE_EXPIRY_DAYS * UnitsPerDay) \div 2
\* instants drawn for the Catalog Store operations
MaxTime == MaxAgeDays * UnitsPerDay + 1

\* ------------------------------------------------------ remote source model
\* int(ep_data['Episode']) on the episode numbers the listings carry
IntOf(s) == CASE s = "1" -> 1 [] s = "2" -> 2 [] s = "3" -> 3
              [] s = "4" -> 4 [] s = "5" -> 5 [] s = "6" -> 6
              [] s = "7" -> 7 [] s = "8" -> 8 [] s = "9" -> 9

\* one item of season_data['Episodes']
ListingItem(id, e) == [imdbID |-> id, Episode |-> e]

\* season_data['Episodes'] of a successful request for season s: the remote
\* source lists episodes 1 and 2 for season 1, lists episode 1 twice for
\* season 2 and lists a single episode for every later season
RemoteListing(s) ==
    IF s = 1 THEN << ListingItem("tt01", "1"), ListingItem("tt02", "2") >>
    ELSE IF s = 2 THEN << ListingItem("tt01", "1"), ListingItem("tt01", "1") >>
    ELSE << ListingItem("tt03", "3") >>

\* what happens to a season request (lines 101-106): a listing, a JSON
\* object without 'Episodes', a failed connection, a non-2xx status, a body
\* that is not JSON, a JSON body that is no container (null, a number), a
\* server that never answers (requests.get is called without a timeout)
SeasonOutcomes ==
    { "ok", "no_episodes_key", "network_error", "http_error", "not_json",
      "json_scalar", "hang" }

\* what happens to an episode detail request (lines 66-69, 77-78)
DetailOutcomes ==
    { "ok", "network_error", "http_error", "not_json", "no_title", "no_plot",
      "hang" }

\* what the remote source may answer to the detail request for an item:
\* anything for the item tt01, an answer, a network error or no answer at
\* all for tt02 and tt03, a network error or no answer at all for the
\* further items of a long listing
DetailOutcomesFor(id) ==
    IF id = "tt01" THEN DetailOutcomes
    ELSE IF id \in { "tt02", "tt03" } THEN { "ok", "network_error", "hang" }
    ELSE { "network_error", "hang" }

\* the outcomes for which requests.get, raise_for_status or Response.json
\* raise a requests.RequestException (requests >= 2.27 raises
\* requests.exceptions.JSONDecodeError, a RequestException, for a body that
\* is not JSON)
RaisesRequestException(o) == o \in { "network_error", "http_error", "not_json" }

Titles == { "The One" }
Plots == { "plot" }

\* ----------------------------------------------------------------- catalog
EpisodeRecord(s, e, t, p) == [season |-> s, episode |-> e, title |-> t, summary |-> p]

NoRecord == EpisodeRecord(0, 0, "", "")

\* json.dump of a list of episode dicts: each dict becomes a JSON object,
\* written as the sequence of its key/value members in insertion order
json_dump(eps) ==
    [ i \in 1..Len(eps) |->
        << <<"season", eps[i].season>>, <<"episode", eps[i].episode>>,
           <<"title", eps[i].title>>, <<"summary", eps[i].summary>> >> ]

Member(obj, key) == (CHOOSE m \in { obj[k] : k \in 1..Len(obj) } : m[1] = key)[2]

\* json.load of what json_dump wrote
json_load(text) ==
    [ i \in 1..Len(text) |->
        EpisodeRecord(Member(text[i], "season"), Member(text[i], "episode"),
                      Member(text[i], "title"), Member(text[i], "summary")) ]

\* the cache file: kind "absent" (no file), "json" (a JSON list of episode
\* objects), "invalid_json" (text that is no JSON), "undecodable" (bytes that
\* are not UTF-8), "unreadable" (mode 000: open() raises PermissionError)
FileKinds == { "absent", "json", "invalid_json", "undecodable", "unreadable" }
DamagedKinds == { "invalid_json", "undecodable", "unreadable" }

AbsentFile == [kind |-> "absent", text |-> << >>, mtime |-> 0]

\* ------------------------------------------------------------ Match Ranker
\* titles and summaries of the catalogs that are ranked
RankTitles == { "The One", "The Pilot" }
RankSummaries == { "Ross and Rachel", "ross and rachel", "Joey eats" }

\* str.lower() on these texts
lower(s) ==
    CASE s = "The One" -> "the one"
      [] s = "The Pilot" -> "the pilot"
      [] s = "Ross and Rachel" -> "ross and rachel"
      [] s = "Joey eats" -> "joey eats"
      [] OTHER -> s

LoweredTexts == { lower(s) : s \in RankTitles \cup RankSummaries \cup Titles \cup Plots }

\* values fuzz.token_set_ratio returns (an integer from 0 to 100)
ScoreValues == { 0, 37, 100 }

\* fuzz.token_set_ratio(transcript.lower(), text.lower()): fz gives the ratio
\* of the lower-cased transcript against each lower-cased text
token_set_ratio(fz, text) == fz[lower(text)]

NoFuzz == [ t \in LoweredTexts |-> 0 ]

combined_score_rounded(plot_score, title_score) ==
    (4 * plot_score + title_score + 2) \div 5

\* lines 158-159: int((plot_score * 0.8) + (title_score * 0.2)).  For every
\* pair of integers from 0 to 100 the double-precision value truncates to
\* the floor of (4 * plot_score + title_score) / 5.
combined_score(plot_score, title_score) ==
    (4 * plot_score + title_score) \div 5

\* one (episode, score) tuple; pos records the index the episode had in
\* the catalog
MatchResult(ep, sc, i) == [episode |-> ep, score |-> sc, pos |-> i]

ScoreAll(fz, eps) ==
    [ i \in 1..Len(eps) |->
        MatchResult(eps[i],
                    combined_score(token_set_ratio(fz, eps[i].summary),
                                   token_set_ratio(fz, eps[i].title)),
                    i) ]

ScoredMatches_filtered(fz, eps) ==
    SelectSeq(ScoreAll(fz, eps), LAMBDA m : m.score > 0)

\* lines 151-159: one tuple per episode of the catalog, in catalog order
ScoredMatches(fz, eps) == ScoreAll(fz, eps)

RECURSIVE InsertAfterEqual(_, _)
\* x goes behind every element whose score is at least its own
InsertAfterEqual(sorted, x) ==
    IF sorted = << >> THEN << x >>
    ELSE IF Head(sorted).score >= x.score
         THEN << Head(sorted) >> \o InsertAfterEqual(Tail(sorted), x)
         ELSE << x >> \o sorted

RECURSIVE SortStable(_)
\* insertion sort, descending by score, equal scores in the order given
SortStable(ms) ==
    IF ms = << >> THEN << >>
    ELSE InsertAfterEqual(SortStable(SubSeq(ms, 1, Len(ms) - 1)), ms[Len(ms)])

sorted_by_score_unstable(ms) ==
    SortStable([ i \in 1..Len(ms) |-> ms[Len(ms) + 1 - i] ])

\* line 162: sorted(matches, key=lambda x: x[1], reverse=True); sorted is
\* stable, also with reverse=True
sorted_by_score(ms) == SortStable(ms)

\* lines 146-162
match_transcript_to_episode(fz, eps) == sorted_by_score(ScoredMatches(fz, eps))

\* line 146: the function takes two positional parameters
RankParams == 2

\* a call with nargs positional arguments: the value or the exception
CallRank(nargs, fz, eps) ==
    IF nargs = RankParams
    THEN [exc |-> "none", value |-> match_transcript_to_episode(fz, eps)]
    ELSE [exc |-> "TypeError", value |-> << >>]

\* ------------------------------------------------------------- video files
\* f"{n:02d}" on the season and episode numbers of the catalogs
TwoDigits(n) ==
    CASE n = 1 -> "01" [] n = 2 -> "02" [] n = 3 -> "03" [] n = 4 -> "04"
      [] n = 5 -> "05" [] n = 6 -> "06" [] n = 7 -> "07" [] n = 8 -> "08"
      [] n = 9 -> "09"

\* re.sub(r'[^\w\s-]', '', title).replace(' ', '.') on the catalogs' titles
clean_title(t) ==
    CASE t = "The One" -> "The.One"
      [] t = "The Pilot" -> "The.Pilot"
      [] OTHER -> t

\* the default template "{series}.S{season}E{episode}.{title}" with its
\* variables replaced and '.mkv' appended; a file name is the sequence of
\* its dot-separated parts
format_episode_filename(episode) ==
    << "Friends",
       << "S", TwoDigits(episode.season), "E", TwoDigits(episode.episode) >>,
       clean_title(episode.title), "mkv" >>

\* no file under a name
NoFile == [video |-> 0, meta |-> << >>]

\* a video file: its stream and the metadata tags written into it
VideoFile(v, m) == [video |-> v, meta |-> m]

\* shutil.move(old_path, new_path) on two file paths of one directory: the
\* same path is left alone, else the file takes the new name, replacing what
\* the new name held (os.rename, or copy and unlink where rename refuses)
shutil_move(d, old, new) ==
    IF d[old] = NoFile THEN [exc |-> "FileNotFoundError", dir |-> d]
    ELSE IF old = new THEN [exc |-> "none", dir |-> d]
    ELSE [exc |-> "none",
          dir |-> [d EXCEPT ![new] = d[old], ![old] = NoFile]]

\* the metadata tags update_mkv_metadata writes for an episode
MetaOf(episode) ==
    << episode.season, episode.episode, episode.title, episode.summary >>

\* what can happen in update_mkv_metadata of transcribe.py: ffmpeg fails;
\* ffmpeg succeeds and the metadata is displayed; ffmpeg succeeds and
\* display_mkv_metadata raises something other than ffmpeg.Error (ffprobe
\* cannot be started, the probe has no 'streams')
UpdateOutcomes == { "ok", "ffmpeg_failed", "display_failed" }

\* transcribe.py lines 169-235: ffmpeg writes a tagged copy, os.replace puts
\* it in the place of the file, then the metadata is displayed; an
\* exception at any point gives False, and after os.replace the file stays
\* tagged
update_mkv_metadata(d, name, episode, outcome) ==
    IF outcome = "ffmpeg_failed" \/ d[name] = NoFile
    THEN [ok |-> FALSE, dir |-> d]
    ELSE [ok |-> (outcome = "ok"),
          dir |-> [d EXCEPT ![name] = VideoFile(d[name].video, MetaOf(episode))]]

\* process_episode.py lines 179-213, its own update_mkv_metadata: ffmpeg
\* writes a tagged copy and os.replace puts it in the place of the file
pe_update_mkv_metadata(d, name, episode, ffmpeg_ok) ==
    IF ffmpeg_ok /\ d[name] # NoFile
    THEN [ok |-> TRUE,
          dir |-> [d EXCEPT ![name] = VideoFile(d[name].video, MetaOf(episode))]]
    ELSE [ok |-> FALSE, dir |-> d]

\* `if matches and matches[0][1] >= min_score`
MeetsThreshold(ms, min) == ms # << >> /\ ms[1].score >= min

\* transcribe.py line 17
MATCH_THRESHOLD == 50

\* bound on the video files of one run
MaxFiles == 2

\* the records a refresh can build from the listings of the remote source
FilesRecords ==
    UNION { { EpisodeRecord(sn, IntOf(RemoteListing(sn)[k].Episode), t, p) :
                k \in 1..Len(RemoteListing(sn)), t \in Titles, p \in Plots } :
            sn \in 1..MaxSeasons }

\* the catalog of season 1 as a refresh saves it
FilesCatalog ==
    LET t == CHOOSE x \in Titles : TRUE
        p == CHOOSE x \in Plots : TRUE
    IN  [ k \in 1..Len(RemoteListing(1)) |->
            EpisodeRecord(1, IntOf(RemoteListing(1)[k].Episode), t, p) ]

\* the name download_episode gives the video it writes
EpisodeMkv == << "episode", "mkv" >>

PlainNames == << << "a", "mkv" >>, << "b", "mkv" >>, << "c", "mkv" >>,
                 << "d", "mkv" >> >>

\* names the input files can have: plain ones, and the name an earlier run
\* gave to the first episode
InputNames ==
    { PlainNames[i] : i \in 1..MaxFiles }
        \cup { format_episode_filename(FilesCatalog[1]) }

FileNames ==
    InputNames
        \cup { format_episode_filename(r) : r \in FilesRecords }
        \cup { EpisodeMkv }

NoDir == [ n \in FileNames |-> NoFile ]

\* token_set_ratio of a transcript against the texts of the catalog:
\* nothing in common with any episode; combined score 80, 100 and 49
FilesFuzz ==
    { NoFuzz,
      [NoFuzz EXCEPT !["plot"] = 100],
      [NoFuzz EXCEPT !["plot"] = 100, !["the one"] = 100],
      [NoFuzz EXCEPT !["plot"] = 37, !["the one"] = 100] }

\* minimum scores a caller passes: the default and a score that occurs
MinScores == { 60, 80 }

VARIABLES
    pc,               \* position of the caller of fetch_friends_episodes
    now,              \* wall clock
    file,             \* CACHE_FILE
    result,           \* the list the last call returned
    error,            \* the exception that left the last call, or "none"
    season,           \* loop variable of the first pass
    total_episodes,
    season_data_list,
    episodes,
    sidx,             \* position of the loop over season_data_list
    jobs,             \* the futures of the season being fetched
    fidx,             \* position of the loop over future_to_ep
    progress,         \* completed count of the progress task
    progress_lock,    \* 0 when free, else the job that holds it
    fresh,            \* what is_cache_valid() returned to this call
    fileAtCall,       \* the cache file when this call started
    requests,         \* requests this call has made to the remote source
    seasonsAsked,     \* seasons this call has requested
    okFetches,        \* detail fetches of this call that did not fail
    failedFetches,    \* detail fetches of this call that failed
    lastSaved,        \* the catalog the cache file holds since the last save
    ticks,            \* clock advances so far
    fuzz,             \* token_set_ratio of the transcript against each text
    matches,          \* the list match_transcript_to_episode returned
    num_threads,      \* threads the executor has started
    idle_semaphore,   \* the executor's count of work items that completed
    used,             \* pool threads that have run a work item of this season
    releasing,        \* threads that finished a work item of an earlier
                      \* season and have not yet counted themselves idle
    dir,              \* the input directory: the file each name holds
    transcripts,      \* the video files of the run, each with its transcript
    ridx,             \* position of the loop over the files
    min_score,        \* the minimum score the caller passed
    routine,          \* the file routine that runs, or "none"
    mkv_files         \* the video files the routine found in the directory

vars == << pc, now, file, result, error, season, total_episodes,
           season_data_list, episodes, sidx, jobs, fidx, progress,
           progress_lock, fresh, fileAtCall, requests, seasonsAsked,
           okFetches, failedFetches, lastSaved, ticks, fuzz, matches,
           num_threads, idle_semaphore, used, releasing,
           dir, transcripts, ridx, min_score, routine, mkv_files >>

rankVars == << fuzz, matches >>

poolVars == << num_threads, idle_semaphore, used, releasing >>

fileVars == << dir, transcripts, ridx, min_score, routine, mkv_files >>

\* ------------------------------------------------------------ Catalog Store
is_cache_valid_inclusive(f, t) ==
    IF f.kind = "absent" THEN FALSE
    ELSE ((t - f.mtime) \div UnitsPerDay) <= CACHE_EXPIRY_DAYS

\* age.days is the floor of the age in days
is_cache_valid(f, t) ==
    IF f.kind = "absent" THEN FALSE
    ELSE LET age == t - f.mtime
         IN  (age \div UnitsPerDay) < CACHE_EXPIRY_DAYS

\* returns the value or the exception that leaves the function
load_cached_episodes(f) ==
    CASE f.kind = "absent"       -> [exc |-> "none", value |-> << >>]
      [] f.kind = "invalid_json" -> [exc |-> "none", value |-> << >>]
      [] f.kind = "undecodable"  -> [exc |-> "UnicodeDecodeError", value |-> << >>]
      [] f.kind = "unreadable"   -> [exc |-> "PermissionError", value |-> << >>]
      [] f.kind = "json"         -> [exc |-> "none", value |-> json_load(f.text)]

save_episodes_cache_merging(f, eps, t) ==
    IF f.kind = "unreadable"
    THEN [exc |-> "PermissionError", file |-> f]
    ELSE [exc |-> "none",
          file |-> [kind |-> "json",
                    text |-> (IF f.kind = "json" THEN f.text ELSE << >>) \o json_dump(eps),
                    mtime |-> t]]

\* open(CACHE_FILE, 'w') truncates the file, json.dump writes the new list
save_episodes_cache(f, eps, t) ==
    IF f.kind = "unreadable"
    THEN [exc |-> "PermissionError", file |-> f]
    ELSE [exc |-> "none",
          file |-> [kind |-> "json", text |-> json_dump(eps), mtime |-> t]]

\* line 60 alone: open(CACHE_FILE, 'w') leaves an empty file, which is no
\* JSON document, until json.dump has written and the file is closed
open_for_write(f, t) ==
    IF f.kind = "unreadable"
    THEN [exc |-> "PermissionError", file |-> f]
    ELSE [exc |-> "none",
          file |-> [kind |-> "invalid_json", text |-> << >>, mtime |-> t]]

\* the catalog a reader of the file gets
PersistedRecords(f) == IF f.kind = "json" THEN json_load(f.text) ELSE << >>

\* ---------------------------------------------------------- Catalog Fetcher
UseCache_never(valid) == FALSE

\* line 89: if is_cache_valid()
UseCache(valid) == valid

ShouldSave_always(eps) == TRUE

\* line 140: if episodes
ShouldSave(eps) == eps # << >>

Job(ep) == [ep_data |-> ep, st |-> "queued", detail |-> "none", title |-> "",
            plot |-> "", ret |-> "pending", rec |-> NoRecord, seen |-> 0]

\* progress_lock.acquire() returns when no thread holds the lock
LockIsFree_always(lock) == TRUE

LockIsFree(lock) == lock = 0

\* the work item occupies a pool thread: from the moment a thread takes it
\* until that thread has released the executor's idle semaphore
Running(j) ==
    j.st \in { "running", "hung", "got", "locked", "released", "returned" }

\* the future of the work item is done: future.result() returns or raises
FutureDone(j) == j.st \in { "returned", "done" }

BetweenCalls == pc \in { "idle", "returned", "raised", "crashed" }

Max(a, b) == IF a >= b THEN a ELSE b

Min(a, b) == IF a <= b THEN a ELSE b

\* ThreadPoolExecutor.submit of one work item with t threads alive and the
\* idle semaphore at s: the submit takes one count off the semaphore when it
\* is positive, else it starts a thread while fewer than max_workers exist.
\* The number of threads the submit starts:
SpawnCount_unbounded(t, s) == IF s > 0 THEN 0 ELSE 1

SpawnCount(t, s) == IF s > 0 THEN 0 ELSE IF t < max_workers THEN 1 ELSE 0

\* work items that occupy a pool thread
Busy(js) == Cardinality({ j \in 1..Len(js) : Running(js[j]) })

Init ==
    /\ pc = "idle"
    /\ now = 0
    /\ file = AbsentFile
    /\ result = << >>
    /\ error = "none"
    /\ season = 0
    /\ total_episodes = 0
    /\ season_data_list = << >>
    /\ episodes = << >>
    /\ sidx = 0
    /\ jobs = << >>
    /\ fidx = 0
    /\ progress = 0
    /\ progress_lock = 0
    /\ fresh = FALSE
    /\ fileAtCall = AbsentFile
    /\ requests = 0
    /\ seasonsAsked = {}
    /\ okFetches = 0
    /\ failedFetches = 0
    /\ lastSaved = << >>
    /\ ticks = 0
    /\ fuzz = NoFuzz
    /\ matches = << >>
    /\ num_threads = 0
    /\ idle_semaphore = 0
    /\ used = 0
    /\ releasing = 0
    /\ dir = NoDir
    /\ transcripts = << >>
    /\ ridx = 0
    /\ min_score = 0
    /\ routine = "none"
    /\ mkv_files = << >>

\* the clock advances between calls.  The clock is read by is_cache_valid
\* only, so it is advanced while a cache file exists that is still valid.
Tick ==
    /\ BetweenCalls
    /\ ticks < MaxTicks
    /\ is_cache_valid(file, now)
    /\ ticks' = ticks + 1
    /\ now' = now + TickStep
    /\ pc' = "idle"
    /\ UNCHANGED << file, result, error, season, total_episodes,
                    season_data_list, episodes, sidx, jobs, fidx, progress,
                    progress_lock, fresh, fileAtCall, requests, seasonsAsked,
                    okFetches, failedFetches, lastSaved >>
    /\ UNCHANGED rankVars
    /\ UNCHANGED fileVars
    /\ UNCHANGED poolVars

\* the cache file is damaged between calls: its timestamp stays, the
\* catalog it held is lost
Damage ==
    /\ BetweenCalls
    /\ file.kind = "json"
    /\ \E k \in DamagedKinds :
          file' = [kind |-> k, text |-> << >>, mtime |-> file.mtime]
    /\ lastSaved' = << >>
    /\ pc' = "idle"
    /\ UNCHANGED << now, result, error, season, total_episodes,
                    season_data_list, episodes, sidx, jobs, fidx, progress,
                    progress_lock, fresh, fileAtCall, requests, seasonsAsked,
                    okFetches, failedFetches, ticks >>
    /\ UNCHANGED rankVars
    /\ UNCHANGED fileVars
    /\ UNCHANGED poolVars

\* fetch_friends_episodes, lines 84-96: serve the cache or start a refresh
Call ==
    /\ BetweenCalls
    /\ fresh' = is_cache_valid(file, now)
    /\ fileAtCall' = file
    /\ requests' = 0
    /\ seasonsAsked' = {}
    /\ okFetches' = 0
    /\ failedFetches' = 0
    /\ episodes' = << >>
    /\ total_episodes' = 0
    /\ season_data_list' = << >>
    /\ sidx' = 0
    /\ jobs' = << >>
    /\ fidx' = 0
    /\ progress' = 0
    /\ IF UseCache(fresh')
       THEN LET r == load_cached_episodes(file)
            IN  /\ pc' = IF r.exc = "none" THEN "returned" ELSE "raised"
                /\ result' = r.value
                /\ error' = r.exc
                /\ season' = 0
       ELSE /\ pc' = "seasons"
            /\ result' = << >>
            /\ error' = "none"
            /\ season' = 1
    \* line 124: every refresh builds its own executor
    /\ num_threads' = 0
    /\ idle_semaphore' = 0
    /\ used' = 0
    /\ releasing' = 0
    /\ UNCHANGED << now, file, progress_lock, lastSaved, ticks >>
    /\ UNCHANGED rankVars
    /\ UNCHANGED fileVars

\* one iteration of the first pass, lines 99-112; after the last season the
\* Progress context is entered and the task added (lines 115-122)
FetchSeason ==
    /\ pc = "seasons"
    /\ \E o \in SeasonOutcomes :
          /\ requests' = requests + 1
          /\ seasonsAsked' = seasonsAsked \cup { season }
          /\ IF o = "hang"
             THEN \* requests.get(url) never returns
                  /\ pc' = "blocked"
                  /\ UNCHANGED << error, season, total_episodes,
                                  season_data_list, sidx >>
             ELSE IF o = "json_scalar"
             THEN \* 'Episodes' in season_data raises TypeError
                  /\ pc' = "raised"
                  /\ error' = "TypeError"
                  /\ UNCHANGED << season, total_episodes, season_data_list, sidx >>
             ELSE /\ IF o = "ok"
                     THEN /\ total_episodes' =
                                total_episodes + Len(RemoteListing(season))
                          /\ season_data_list' =
                                Append(season_data_list,
                                       << season, RemoteListing(season) >>)
                     ELSE UNCHANGED << total_episodes, season_data_list >>
                  /\ error' = "none"
                  /\ IF season = MaxSeasons
                     THEN /\ pc' = "submit"
                          /\ sidx' = 1
                          /\ season' = season
                     ELSE /\ pc' = "seasons"
                          /\ season' = season + 1
                          /\ sidx' = sidx
    /\ UNCHANGED << now, file, result, episodes, jobs, fidx, progress,
                    progress_lock, fresh, fileAtCall, okFetches,
                    failedFetches, lastSaved, ticks >>
    /\ UNCHANGED rankVars
    /\ UNCHANGED fileVars
    /\ UNCHANGED poolVars

\* lines 125-130: one executor.submit of the dict comprehension; after the
\* last item of the season the loop over the futures begins.  After the
\* last season the executor is left, which joins its threads, and the
\* Progress context is left
Submit ==
    /\ pc = "submit"
    /\ IF sidx <= Len(season_data_list)
       THEN LET eps == season_data_list[sidx][2]
                k == Len(jobs) + 1
            IN  IF k <= Len(eps)
                THEN /\ jobs' = Append(jobs, Job(eps[k]))
                     /\ num_threads' = num_threads
                             + SpawnCount(num_threads, idle_semaphore)
                     /\ idle_semaphore' = Max(idle_semaphore - 1, 0)
                     /\ IF k = Len(eps)
                        THEN pc' = "collect" /\ fidx' = 1
                        ELSE pc' = "submit" /\ fidx' = fidx
                     /\ UNCHANGED << sidx, used, releasing >>
                ELSE \* a season that lists no episode
                     /\ sidx' = sidx + 1
                     /\ UNCHANGED << pc, jobs, fidx >>
                     /\ UNCHANGED poolVars
       ELSE /\ releasing = 0
            /\ jobs' = << >>
            /\ fidx' = 0
            /\ pc' = "store"
            /\ UNCHANGED sidx
            /\ UNCHANGED poolVars
    /\ UNCHANGED << now, file, result, error, season, total_episodes,
                    season_data_list, episodes, progress, progress_lock,
                    fresh, fileAtCall, requests, seasonsAsked, okFetches,
                    failedFetches, lastSaved, ticks >>
    /\ UNCHANGED rankVars
    /\ UNCHANGED fileVars

\* the pool threads run from the first submit until the executor is left
PoolActive == pc \in { "submit", "collect", "shutdown" }

\* an idle pool thread takes the oldest queued work item: a thread that has
\* not run a work item of this season yet, or one that has finished a work
\* item of this season and went straight back to the queue (the worker loop
\* and fetch_episode_data do not sleep)
StartJob(i) ==
    /\ PoolActive
    /\ jobs[i].st = "queued"
    /\ \A j \in 1..(i - 1) : jobs[j].st # "queued"
    /\ Busy(jobs) + releasing < num_threads
    /\ jobs' = [jobs EXCEPT ![i].st = "running"]
    /\ \/ /\ used + releasing < num_threads
          /\ used' = used + 1
       \/ /\ Busy(jobs) < used
          /\ UNCHANGED used
    /\ UNCHANGED << num_threads, idle_semaphore, releasing >>
    /\ UNCHANGED << pc, now, file, result, error, season, total_episodes,
                    season_data_list, episodes, sidx, fidx, progress,
                    progress_lock, fresh, fileAtCall, requests, seasonsAsked,
                    okFetches, failedFetches, lastSaved, ticks >>
    /\ UNCHANGED rankVars
    /\ UNCHANGED fileVars

\* fetch_episode_data, lines 66-69 and 80-82: the request and its outcome;
\* after a RequestException the function returns None and the future is done
RequestDetail(i) ==
    /\ PoolActive
    /\ jobs[i].st = "running"
    /\ requests' = requests + 1
    /\ \E o \in DetailOutcomesFor(jobs[i].ep_data.imdbID),
          t \in Titles, p \in Plots :
          IF o = "hang"
          THEN \* requests.get(ep_url) never returns
               /\ jobs' = [jobs EXCEPT ![i].st = "hung"]
               /\ UNCHANGED failedFetches
          ELSE IF RaisesRequestException(o)
          THEN /\ jobs' = [jobs EXCEPT ![i].st = "returned", ![i].ret = "None"]
               /\ failedFetches' = failedFetches + 1
          ELSE /\ jobs' = [jobs EXCEPT ![i].st = "got", ![i].detail = o,
                                       ![i].title = IF o = "no_title" THEN "" ELSE t,
                                       ![i].plot = IF o = "no_plot" THEN "" ELSE p]
               /\ UNCHANGED failedFetches
    /\ UNCHANGED << pc, now, file, result, error, season, total_episodes,
                    season_data_list, episodes, sidx, fidx, progress,
                    progress_lock, fresh, fileAtCall, seasonsAsked, okFetches,
                    lastSaved, ticks >>
    /\ UNCHANGED rankVars
    /\ UNCHANGED fileVars
    /\ UNCHANGED poolVars

\* lines 71-72: with progress_lock; progress.update reads the completed
\* count of the task
AcquireLock(i) ==
    /\ PoolActive
    /\ jobs[i].st = "got"
    /\ LockIsFree(progress_lock)
    /\ progress_lock' = i
    /\ jobs' = [jobs EXCEPT ![i].st = "locked", ![i].seen = progress]
    /\ UNCHANGED << pc, now, file, result, error, season, total_episodes,
                    season_data_list, episodes, sidx, fidx, progress, fresh,
                    fileAtCall, requests, seasonsAsked, okFetches,
                    failedFetches, lastSaved, ticks >>
    /\ UNCHANGED rankVars
    /\ UNCHANGED fileVars
    /\ UNCHANGED poolVars

\* line 72: progress.update writes the advanced count; the with block ends
\* and the lock is released
UpdateProgress(i) ==
    /\ PoolActive
    /\ jobs[i].st = "locked"
    /\ progress' = jobs[i].seen + 1
    /\ progress_lock' = 0
    /\ jobs' = [jobs EXCEPT ![i].st = "released", ![i].seen = 0]
    /\ UNCHANGED << pc, now, file, result, error, season, total_episodes,
                    season_data_list, episodes, sidx, fidx, fresh, fileAtCall,
                    requests, seasonsAsked, okFetches, failedFetches,
                    lastSaved, ticks >>
    /\ UNCHANGED rankVars
    /\ UNCHANGED fileVars
    /\ UNCHANGED poolVars

\* lines 74-79: the record is built and returned, or ep_detail['Title'] or
\* ep_detail['Plot'] raises KeyError; the future is done with that outcome
BuildRecord(i) ==
    /\ PoolActive
    /\ jobs[i].st = "released"
    /\ LET s == season_data_list[sidx][1]
           j == jobs[i]
       IN  IF j.detail = "ok"
           THEN /\ jobs' = [jobs EXCEPT ![i].st = "returned", ![i].ret = "record",
                                ![i].detail = "none", ![i].title = "",
                                ![i].plot = "",
                                ![i].rec = EpisodeRecord(s, IntOf(j.ep_data.Episode),
                                                         j.title, j.plot)]
                /\ okFetches' = okFetches + 1
                /\ UNCHANGED failedFetches
           ELSE /\ jobs' = [jobs EXCEPT ![i].st = "returned", ![i].ret = "KeyError",
                                ![i].detail = "none", ![i].title = "",
                                ![i].plot = ""]
                /\ failedFetches' = failedFetches + 1
                /\ UNCHANGED okFetches
    /\ UNCHANGED << pc, now, file, result, error, season, total_episodes,
                    season_data_list, episodes, sidx, fidx, progress,
                    progress_lock, fresh, fileAtCall, requests, seasonsAsked,
                    lastSaved, ticks >>
    /\ UNCHANGED rankVars
    /\ UNCHANGED fileVars
    /\ UNCHANGED poolVars

\* the worker loop after work_item.run(): the thread releases the
\* executor's idle semaphore and goes back to the queue
ReleaseIdle(i) ==
    /\ PoolActive
    /\ jobs[i].st = "returned"
    /\ jobs' = [jobs EXCEPT ![i].st = "done"]
    /\ idle_semaphore' = idle_semaphore + 1
    /\ UNCHANGED << num_threads, used, releasing >>
    /\ UNCHANGED << pc, now, file, result, error, season, total_episodes,
                    season_data_list, episodes, sidx, fidx, progress,
                    progress_lock, fresh, fileAtCall, requests, seasonsAsked,
                    okFetches, failedFetches, lastSaved, ticks >>
    /\ UNCHANGED rankVars
    /\ UNCHANGED fileVars

\* the same step of a thread whose work item belongs to an earlier season,
\* all of whose futures the calling thread has collected already
ReleaseLate ==
    /\ PoolActive
    /\ releasing > 0
    /\ releasing' = releasing - 1
    /\ idle_semaphore' = idle_semaphore + 1
    /\ UNCHANGED << num_threads, used >>
    /\ UNCHANGED << pc, now, file, result, error, season, total_episodes,
                    season_data_list, episodes, sidx, jobs, fidx, progress,
                    progress_lock, fresh, fileAtCall, requests, seasonsAsked,
                    okFetches, failedFetches, lastSaved, ticks >>
    /\ UNCHANGED rankVars
    /\ UNCHANGED fileVars

\* lines 133-137: future.result() of the next future, in submission order,
\* and the sleep that follows it
Collect ==
    /\ pc = "collect"
    /\ fidx <= Len(jobs)
    /\ FutureDone(jobs[fidx])
    /\ LET j == jobs[fidx]
       IN  IF j.ret = "KeyError"
           THEN /\ pc' = "shutdown"
                /\ error' = "KeyError"
                /\ UNCHANGED << episodes, fidx, sidx, jobs, releasing, used >>
           ELSE /\ episodes' = IF j.ret = "record" THEN Append(episodes, j.rec)
                                                   ELSE episodes
                /\ error' = "none"
                /\ IF fidx = Len(jobs)
                   THEN /\ pc' = "submit"
                        /\ sidx' = sidx + 1
                        /\ fidx' = 0
                        /\ jobs' = << >>
                        /\ releasing' = releasing + Busy(jobs)
                        /\ used' = 0
                   ELSE /\ pc' = "collect"
                        /\ fidx' = fidx + 1
                        /\ UNCHANGED << sidx, jobs, releasing, used >>
    /\ UNCHANGED << num_threads, idle_semaphore >>
    /\ UNCHANGED << now, file, result, season, total_episodes,
                    season_data_list, progress, progress_lock, fresh,
                    fileAtCall, requests, seasonsAsked, okFetches,
                    failedFetches, lastSaved, ticks >>
    /\ UNCHANGED rankVars
    /\ UNCHANGED fileVars

\* the exception leaves the with blocks: ThreadPoolExecutor.__exit__ waits
\* for every submitted work item and joins the threads
\* (shutdown(wait=True)), then it propagates
Shutdown ==
    /\ pc = "shutdown"
    /\ \A i \in 1..Len(jobs) : jobs[i].st = "done"
    /\ releasing = 0
    /\ pc' = "raised"
    /\ result' = << >>
    /\ UNCHANGED << now, file, error, season, total_episodes,
                    season_data_list, episodes, sidx, jobs, fidx, progress,
                    progress_lock, fresh, fileAtCall, requests, seasonsAsked,
                    okFetches, failedFetches, lastSaved, ticks >>
    /\ UNCHANGED rankVars
    /\ UNCHANGED fileVars
    /\ UNCHANGED poolVars

\* lines 139-142 and 60: a non-empty catalog is saved, the cache file is
\* opened for writing; an empty catalog is returned as it is (line 144)
Store ==
    /\ pc = "store"
    /\ IF ShouldSave(episodes)
       THEN LET r == open_for_write(file, now)
            IN  /\ file' = r.file
                /\ error' = r.exc
                /\ pc' = IF r.exc = "none" THEN "writing" ELSE "raised"
                /\ UNCHANGED result
       ELSE /\ pc' = "returned"
            /\ result' = episodes
            /\ UNCHANGED << file, error >>
    /\ UNCHANGED << now, season, total_episodes, season_data_list, episodes,
                    sidx, jobs, fidx, progress, progress_lock, fresh,
                    fileAtCall, requests, seasonsAsked, okFetches,
                    failedFetches, lastSaved, ticks >>
    /\ UNCHANGED rankVars
    /\ UNCHANGED fileVars
    /\ UNCHANGED poolVars

\* lines 61 and 144: json.dump writes the list and the file is closed, which
\* completes save_episodes_cache on the file the call found; the catalog is
\* returned
Dump ==
    /\ pc = "writing"
    /\ LET r == save_episodes_cache(fileAtCall, episodes, now)
       IN  /\ file' = r.file
           /\ error' = r.exc
    /\ pc' = "returned"
    /\ result' = episodes
    /\ lastSaved' = episodes
    /\ UNCHANGED << now, season, total_episodes, season_data_list, episodes,
                    sidx, jobs, fidx, progress, progress_lock, fresh,
                    fileAtCall, requests, seasonsAsked, okFetches,
                    failedFetches, ticks >>
    /\ UNCHANGED rankVars
    /\ UNCHANGED fileVars
    /\ UNCHANGED poolVars

\* the process is killed between open and close: nothing, or a prefix of
\* the document, has reached the file
Crash ==
    /\ pc = "writing"
    /\ pc' = "crashed"
    /\ lastSaved' = << >>
    /\ UNCHANGED << now, file, result, error, season, total_episodes,
                    season_data_list, episodes, sidx, jobs, fidx, progress,
                    progress_lock, fresh, fileAtCall, requests, seasonsAsked,
                    okFetches, failedFetches, ticks >>
    /\ UNCHANGED rankVars
    /\ UNCHANGED fileVars
    /\ UNCHANGED poolVars

Worker ==
    \/ \E i \in 1..Len(jobs) :
          \/ StartJob(i)
          \/ RequestDetail(i)
          \/ AcquireLock(i)
          \/ UpdateProgress(i)
          \/ BuildRecord(i)
          \/ ReleaseIdle(i)
    \/ ReleaseLate

Next ==
    \/ Tick
    \/ Damage
    \/ Call
    \/ FetchSeason
    \/ Submit
    \/ Worker
    \/ Collect
    \/ Shutdown
    \/ Store
    \/ Dump
    \/ Crash

Spec == Init /\ [][Next]_vars

\* the steps of the calling thread and of the pool threads
MainThread == FetchSeason \/ Submit \/ Collect \/ Shutdown \/ Store \/ Dump

\* every thread that can take a step eventually takes one
SpecLive == Spec /\ WF_vars(MainThread) /\ WF_vars(Worker)

\* ------------------------------------------- the Catalog Store on its own
\* catalogs an earlier run can have saved (save is only called with a
\* non-empty list)
StoreCatalogs ==
    { << EpisodeRecord(1, 1, "The One", "plot") >>,
      << EpisodeRecord(1, 1, "The One", "plot"),
         EpisodeRecord(1, 2, "The One", "plot") >> }

StoreFiles ==
    { AbsentFile } \cup
    { [kind |-> k, text |-> IF k = "json" THEN json_dump(c) ELSE << >>, mtime |-> m] :
        k \in FileKinds \ { "absent" }, c \in StoreCatalogs, m \in 0..MaxTime }

InitStore ==
    /\ pc = "idle"
    /\ now \in 0..MaxTime
    /\ file \in StoreFiles
    /\ lastSaved = PersistedRecords(file)
    /\ result = << >>
    /\ error = "none"
    /\ season = 0
    /\ total_episodes = 0
    /\ season_data_list = << >>
    /\ episodes = << >>
    /\ sidx = 0
    /\ jobs = << >>
    /\ fidx = 0
    /\ progress = 0
    /\ progress_lock = 0
    /\ fresh = FALSE
    /\ fileAtCall = file
    /\ requests = 0
    /\ seasonsAsked = {}
    /\ okFetches = 0
    /\ failedFetches = 0
    /\ ticks = 0
    /\ fuzz = NoFuzz
    /\ matches = << >>
    /\ num_threads = 0
    /\ idle_semaphore = 0
    /\ used = 0
    /\ releasing = 0
    /\ dir = NoDir
    /\ transcripts = << >>
    /\ ridx = 0
    /\ min_score = 0
    /\ routine = "none"
    /\ mkv_files = << >>

\* a call of is_cache_valid()
IsCacheValidCall ==
    /\ pc = "idle"
    /\ fresh' = is_cache_valid(file, now)
    /\ pc' = "checked"
    /\ UNCHANGED << now, file, result, error, season, total_episodes,
                    season_data_list, episodes, sidx, jobs, fidx, progress,
                    progress_lock, fileAtCall, requests, seasonsAsked,
                    okFetches, failedFetches, lastSaved, ticks >>
    /\ UNCHANGED rankVars
    /\ UNCHANGED fileVars
    /\ UNCHANGED poolVars

\* a call of load_cached_episodes()
LoadCall ==
    /\ pc = "idle"
    /\ LET r == load_cached_episodes(file)
       IN  /\ result' = r.value
           /\ error' = r.exc
    /\ pc' = "loaded"
    /\ UNCHANGED << now, file, season, total_episodes, season_data_list,
                    episodes, sidx, jobs, fidx, progress, progress_lock,
                    fresh, fileAtCall, requests, seasonsAsked, okFetches,
                    failedFetches, lastSaved, ticks >>
    /\ UNCHANGED rankVars
    /\ UNCHANGED fileVars
    /\ UNCHANGED poolVars

\* a call of save_episodes_cache(episodes)
SaveCall ==
    /\ pc = "idle"
    /\ \E c \in StoreCatalogs :
          LET r == save_episodes_cache(file, c, now)
          IN  /\ file' = r.file
              /\ error' = r.exc
              /\ lastSaved' = IF r.exc = "none" THEN c ELSE lastSaved
    /\ pc' = "saved"
    /\ UNCHANGED << now, result, season, total_episodes, season_data_list,
                    episodes, sidx, jobs, fidx, progress, progress_lock,
                    fresh, fileAtCall, requests, seasonsAsked, okFetches,
                    failedFetches, ticks >>
    /\ UNCHANGED rankVars
    /\ UNCHANGED fileVars
    /\ UNCHANGED poolVars

NextStore ==
    \/ IsCacheValidCall
    \/ LoadCall
    \/ SaveCall

SpecStore == InitStore /\ [][NextStore]_vars

\* ------------------------------------------------------------- properties
\* the call has ended, by return or by an exception
CallEnded == pc \in { "returned", "raised" }

\* the call took the network branch: its first season request was made
Refreshed == seasonsAsked # {}

\* C1: a refresh that ends with zero episode records leaves the cache file
\* exactly as it was when the call started (save is not called), whatever
\* season and episode-detail failures occurred.
C1_EmptyRefreshKeepsFile ==
    (CallEnded /\ Refreshed /\ episodes = << >>) => file = fileAtCall

\* C1 witness: a refresh over a non-empty persisted catalog returned with no
\* record after episode-detail failures.
C1_Witness ==
    /\ pc = "returned"
    /\ Refreshed
    /\ episodes = << >>
    /\ failedFetches > 0
    /\ PersistedRecords(fileAtCall) # << >>

\* C2 as stated: a refresh that fetched zero episodes never returns a catalog
\* with fewer records than the last successfully persisted one.
C2_Original ==
    (pc = "returned" /\ Refreshed /\ okFetches = 0)
        => Len(result) >= Len(lastSaved)

\* C2 amended: a refresh that fetched zero episodes returns the empty
\* catalog, and the persisted catalog has no fewer records after the call
\* than it had before it.
C2_EmptyRefreshReturnsEmpty ==
    (pc = "returned" /\ Refreshed /\ okFetches = 0)
        => /\ result = << >>
           /\ Len(PersistedRecords(file)) >= Len(PersistedRecords(fileAtCall))

\* C2 witness: a zero-episode refresh returned while a non-empty catalog is
\* persisted.
C2_Witness ==
    /\ pc = "returned"
    /\ Refreshed
    /\ okFetches = 0
    /\ requests > 0
    /\ Len(lastSaved) > 0

\* C3 as stated: when episode-detail requests fail, the call still returns,
\* with one record per request that succeeded.
C3_Claim ==
    (CallEnded /\ Refreshed /\ failedFetches > 0 /\ error # "PermissionError")
        => (pc = "returned" /\ Len(result) = okFetches)

\* C4 as stated: when the episode-detail phase has ended, the catalog has
\* one record per non-failing fetch and the progress counter equals that
\* number.
C4_Claim ==
    (Refreshed /\ (pc \in { "store", "returned" } \/ (pc = "raised" /\ error = "KeyError")))
        => (Len(episodes) = okFetches /\ progress = okFetches)

\* C5 as stated: a call that finds a fresh but damaged cache file performs a
\* network refresh.
C5_Claim ==
    (CallEnded /\ fresh /\ fileAtCall.kind \in DamagedKinds) => Refreshed

\* C6 as stated: load never raises, and returns the empty catalog for an
\* absent file and for every file it cannot parse or read.
C6_Claim ==
    (pc = "loaded")
        => /\ error = "none"
           /\ (file.kind # "json" => result = << >>)

\* C7: a call that finds the cache fresh makes no request, leaves the cache
\* file as it is, and, when the file holds a saved catalog, returns exactly
\* that catalog.
C7_FreshServedFromCache ==
    (CallEnded /\ fresh)
        => /\ requests = 0
           /\ file = fileAtCall
           /\ (fileAtCall.kind = "json" => (pc = "returned" /\ result = lastSaved))
           /\ (pc = "returned" => result = PersistedRecords(fileAtCall))

\* C7 witness: a call within the TTL of a save returned the saved non-empty
\* catalog.
C7_Witness ==
    /\ pc = "returned"
    /\ fresh
    /\ requests = 0
    /\ result # << >>
    /\ result = lastSaved

\* C8: is_cache_valid returns true exactly when the file exists and its age
\* is strictly less than CACHE_EXPIRY_DAYS days.
C8_FreshIffYoungerThanTTL ==
    (pc = "checked")
        => (fresh <=> (file.kind # "absent"
                       /\ now - file.mtime < CACHE_EXPIRY_DAYS * UnitsPerDay))

\* C8 witness: is_cache_valid returned false for a file that is exactly
\* CACHE_EXPIRY_DAYS days old.
C8_Witness ==
    /\ pc = "checked"
    /\ file.kind = "json"
    /\ now - file.mtime = CACHE_EXPIRY_DAYS * UnitsPerDay
    /\ ~fresh

\* C9 as stated: a failing season request never aborts the refresh: every
\* season from 1 to the last is requested.
C9_Claim ==
    (CallEnded /\ Refreshed)
        => (seasonsAsked = 1..MaxSeasons /\ error # "TypeError")

\* C10: a refresh that returns a non-empty catalog has saved it: the cache
\* file, written during the call, holds exactly the returned records and
\* nothing of the previous version.
C10_NonEmptyRefreshSaved ==
    (pc = "returned" /\ Refreshed /\ result # << >>)
        => /\ file.kind = "json"
           /\ json_load(file.text) = result
           /\ file.mtime = now
           /\ lastSaved = result

\* C10 witness: a refresh returned a non-empty catalog that differs from the
\* non-empty catalog persisted before the call.
C10_Witness ==
    /\ pc = "returned"
    /\ Refreshed
    /\ result # << >>
    /\ PersistedRecords(fileAtCall) # << >>
    /\ PersistedRecords(fileAtCall) # result
    /\ json_load(file.text) = result

\* -------------------------------------------- the Match Ranker on its own
\* bound on the size of the ranked catalogs
MaxCatalog == 3

RankRecords ==
    { EpisodeRecord(1, 1, t, p) : t \in RankTitles, p \in RankSummaries }

RECURSIVE SeqsUpTo(_, _)
SeqsUpTo(S, n) ==
    IF n = 0 THEN { << >> }
    ELSE LET shorter == SeqsUpTo(S, n - 1)
         IN  shorter \cup { Append(q, x) : q \in shorter, x \in S }

InitRank ==
    /\ pc = "idle"
    /\ result \in SeqsUpTo(RankRecords, MaxCatalog)
    /\ fuzz \in [LoweredTexts -> ScoreValues]
    /\ matches = << >>
    /\ now = 0
    /\ file = AbsentFile
    /\ error = "none"
    /\ season = 0
    /\ total_episodes = 0
    /\ season_data_list = << >>
    /\ episodes = << >>
    /\ sidx = 0
    /\ jobs = << >>
    /\ fidx = 0
    /\ progress = 0
    /\ progress_lock = 0
    /\ fresh = FALSE
    /\ fileAtCall = AbsentFile
    /\ requests = 0
    /\ seasonsAsked = {}
    /\ okFetches = 0
    /\ failedFetches = 0
    /\ lastSaved = << >>
    /\ ticks = 0
    /\ num_threads = 0
    /\ idle_semaphore = 0
    /\ used = 0
    /\ releasing = 0
    /\ dir = NoDir
    /\ transcripts = << >>
    /\ ridx = 0
    /\ min_score = 0
    /\ routine = "none"
    /\ mkv_files = << >>

\* rename_files line 90 and main line 206: the catalog that
\* fetch_friends_episodes returned is ranked against a transcript
RankCall ==
    /\ pc = "idle"
    /\ LET r == CallRank(2, fuzz, result)
       IN  /\ matches' = r.value
           /\ error' = r.exc
           /\ pc' = IF r.exc = "none" THEN "ranked" ELSE "rank_raised"
    /\ UNCHANGED << now, file, result, season, total_episodes,
                    season_data_list, episodes, sidx, jobs, fidx, progress,
                    progress_lock, fresh, fileAtCall, requests, seasonsAsked,
                    okFetches, failedFetches, lastSaved, ticks, fuzz >>
    /\ UNCHANGED poolVars
    /\ UNCHANGED fileVars

\* process_episode lines 261-264 and 300-302: the call passes ai_summary as
\* a third argument; an exception is caught and process_episode returns
\* False, otherwise the threshold check of line 264 is reached
ProcessEpisodeRank ==
    /\ pc = "idle"
    /\ LET r == CallRank(3, fuzz, result)
       IN  /\ matches' = r.value
           /\ error' = r.exc
           /\ pc' = IF r.exc = "none" THEN "pe_threshold" ELSE "pe_failed"
    /\ UNCHANGED << now, file, result, season, total_episodes,
                    season_data_list, episodes, sidx, jobs, fidx, progress,
                    progress_lock, fresh, fileAtCall, requests, seasonsAsked,
                    okFetches, failedFetches, lastSaved, ticks, fuzz >>
    /\ UNCHANGED poolVars
    /\ UNCHANGED fileVars

NextRank ==
    \/ RankCall
    \/ ProcessEpisodeRank

SpecRank == InitRank /\ [][NextRank]_vars

\* C11: the ranked list has exactly one tuple per catalog record (its
\* positions are a permutation of the catalog's), each tuple carries the
\* record as it is in the catalog, and an empty catalog gives an empty list
\* without error.
C11_OneMatchPerRecord ==
    (pc = "ranked")
        => /\ error = "none"
           /\ Len(matches) = Len(result)
           /\ { matches[k].pos : k \in 1..Len(matches) } = 1..Len(result)
           /\ \A k \in 1..Len(matches) : matches[k].episode = result[matches[k].pos]

\* C11 witness: a catalog of several records was ranked and one of them
\* scored 0.
C11_Witness ==
    /\ pc = "ranked"
    /\ Len(result) >= 2
    /\ Len(matches) = Len(result)
    /\ \E k \in 1..Len(matches) : matches[k].score = 0

\* C12: the ranked list is in non-increasing order of score, and tuples of
\* equal score are in the order their records have in the catalog.
C12_SortedStable ==
    (pc = "ranked")
        => \A i, j \in 1..Len(matches) :
              i < j => /\ matches[i].score >= matches[j].score
                       /\ (matches[i].score = matches[j].score
                              => matches[i].pos < matches[j].pos)

\* C12 witness: the ranking moved a record ahead of an earlier one, and two
\* different records tie.
C12_Witness ==
    /\ pc = "ranked"
    /\ \E i, j \in 1..Len(matches) :
          i < j /\ matches[i].pos > matches[j].pos
    /\ \E i, j \in 1..Len(matches) :
          /\ i < j
          /\ matches[i].score = matches[j].score
          /\ matches[i].episode # matches[j].episode

\* C13 as stated: the call process_episode makes, with the auxiliary
\* summary, returns a ranked list, so that the threshold check is reached.
C13_Claim ==
    (pc \in { "pe_threshold", "pe_failed" })
        => (pc = "pe_threshold" /\ error = "none" /\ Len(matches) = Len(result))

\* C14: every score is the truncation of 0.8 * plot_score + 0.2 *
\* title_score, with both ratios and the score integers from 0 to 100.
C14_ScoreIsTruncatedWeightedSum ==
    (pc = "ranked")
        => \A k \in 1..Len(matches) :
              LET plot_score == token_set_ratio(fuzz, matches[k].episode.summary)
                  title_score == token_set_ratio(fuzz, matches[k].episode.title)
                  sc == matches[k].score
              IN  /\ plot_score \in 0..100
                  /\ title_score \in 0..100
                  /\ sc \in 0..100
                  /\ 10 * sc <= 8 * plot_score + 2 * title_score
                  /\ 8 * plot_score + 2 * title_score < 10 * sc + 10

\* C14 witness: a score whose weighted sum is no integer was truncated.
C14_Witness ==
    /\ pc = "ranked"
    /\ \E k \in 1..Len(matches) :
          LET plot_score == token_set_ratio(fuzz, matches[k].episode.summary)
              title_score == token_set_ratio(fuzz, matches[k].episode.title)
          IN  /\ (8 * plot_score + 2 * title_score) % 10 # 0
              /\ 10 * matches[k].score < 8 * plot_score + 2 * title_score

\* C15 as stated: every refresh ends, by return or by exception, also when
\* a request to the remote source gets no answer.
C15_Claim == (pc = "seasons") ~> CallEnded

\* ------------------------------------------------------------ worker pool
\* a season that lists more episodes than the pool has threads
PoolEpisodes == max_workers + 1

PoolDigits == << "1", "2", "3", "4", "5", "6", "7", "8", "9" >>

PoolIds == << "tt01", "tt02", "tt03", "tt04", "tt05", "tt06", "tt07",
              "tt08", "tt09" >>

PoolListing ==
    [ e \in 1..PoolEpisodes |-> ListingItem(PoolIds[e], PoolDigits[e]) ]

\* the second pass begins: the first pass got the listing of season 1 and
\* a network error for every other season
InitPool ==
    /\ pc = "submit"
    /\ now = 0
    /\ file = AbsentFile
    /\ result = << >>
    /\ error = "none"
    /\ season = MaxSeasons
    /\ total_episodes = PoolEpisodes
    /\ season_data_list = << << 1, PoolListing >> >>
    /\ episodes = << >>
    /\ sidx = 1
    /\ jobs = << >>
    /\ fidx = 0
    /\ progress = 0
    /\ progress_lock = 0
    /\ fresh = FALSE
    /\ fileAtCall = AbsentFile
    /\ requests = MaxSeasons
    /\ seasonsAsked = 1..MaxSeasons
    /\ okFetches = 0
    /\ failedFetches = 0
    /\ lastSaved = << >>
    /\ ticks = 0
    /\ fuzz = NoFuzz
    /\ matches = << >>
    /\ num_threads = 0
    /\ idle_semaphore = 0
    /\ used = 0
    /\ releasing = 0
    /\ dir = NoDir
    /\ transcripts = << >>
    /\ ridx = 0
    /\ min_score = 0
    /\ routine = "none"
    /\ mkv_files = << >>

\* ---- the renamer's pool (rename_episodes.py main and process_file)
\* typer default of --workers
workers == 4

RnFiles == 2

RnFileNames == << "a.mkv", "b.mkv", "c.mkv", "d.mkv", "e.mkv" >>

\* progress_lock held by the thread that runs main
MainThreadId == -1

\* main lines 153-158: every file has been submitted to the pool
InitRename ==
    /\ pc = "rn_collect"
    /\ jobs = [ i \in 1..RnFiles |-> Job(RnFileNames[i]) ]
    /\ fidx = 1
    /\ now = 0
    /\ file = AbsentFile
    /\ result = << >>
    /\ error = "none"
    /\ season = 0
    /\ total_episodes = 0
    /\ season_data_list = << >>
    /\ episodes = << >>
    /\ sidx = 0
    /\ progress = 0
    /\ progress_lock = 0
    /\ fresh = FALSE
    /\ fileAtCall = AbsentFile
    /\ requests = 0
    /\ seasonsAsked = {}
    /\ okFetches = 0
    /\ failedFetches = 0
    /\ lastSaved = << >>
    /\ ticks = 0
    /\ fuzz = NoFuzz
    /\ matches = << >>
    /\ num_threads = 0
    /\ idle_semaphore = 0
    /\ used = 0
    /\ releasing = 0
    /\ dir = NoDir
    /\ transcripts = << >>
    /\ ridx = 0
    /\ min_score = 0
    /\ routine = "none"
    /\ mkv_files = << >>

RnPoolActive == pc \in { "rn_collect", "rn_wait_lock", "rn_advance" }

\* files whose process_file call is on a pool thread
RnBusy(js) == Cardinality({ j \in 1..Len(js) : js[j].st \notin { "queued", "done" } })

RnUnchanged ==
    /\ UNCHANGED << now, file, result, error, season, total_episodes,
                    season_data_list, episodes, sidx, fresh, fileAtCall,
                    requests, seasonsAsked, okFetches, failedFetches,
                    lastSaved, ticks >>
    /\ UNCHANGED rankVars
    /\ UNCHANGED fileVars
    /\ UNCHANGED poolVars

\* a pool thread takes the oldest queued file and enters process_file
RnStart(i) ==
    /\ RnPoolActive
    /\ jobs[i].st = "queued"
    /\ \A j \in 1..(i - 1) : jobs[j].st # "queued"
    /\ RnBusy(jobs) < workers
    /\ jobs' = [jobs EXCEPT ![i].st = "started"]
    /\ UNCHANGED << pc, fidx, progress, progress_lock >>
    /\ RnUnchanged

\* process_file lines 50 and 55: with progress_lock
RnAcquire(i) ==
    /\ RnPoolActive
    /\ jobs[i].st \in { "started", "extracted" }
    /\ LockIsFree(progress_lock)
    /\ progress_lock' = i
    /\ jobs' = [jobs EXCEPT ![i].st = IF jobs[i].st = "started"
                                      THEN "describe1" ELSE "describe2"]
    /\ UNCHANGED << pc, fidx, progress >>
    /\ RnUnchanged

\* process_file lines 51 and 56: progress.update(task_id, description=...)
\* leaves the completed count alone; the lock is released
RnDescribe(i) ==
    /\ RnPoolActive
    /\ jobs[i].st \in { "describe1", "describe2" }
    /\ progress_lock' = 0
    /\ jobs' = [jobs EXCEPT ![i].st = IF jobs[i].st = "describe1"
                                      THEN "extracting" ELSE "transcribing"]
    /\ UNCHANGED << pc, fidx, progress >>
    /\ RnUnchanged

\* process_file lines 54 and 59-69: the audio is extracted, then
\* transcribed; a failure or an exception of either ends the call with None
RnWork(i) ==
    /\ RnPoolActive
    /\ jobs[i].st \in { "extracting", "transcribing" }
    /\ \E ok \in BOOLEAN :
          jobs' = [jobs EXCEPT
                     ![i].st = IF ~ok THEN "done"
                               ELSE IF jobs[i].st = "extracting"
                                    THEN "extracted" ELSE "done",
                     ![i].ret = IF ~ok THEN "None"
                                ELSE IF jobs[i].st = "extracting"
                                     THEN "pending" ELSE "record"]
    /\ UNCHANGED << pc, fidx, progress, progress_lock >>
    /\ RnUnchanged

\* main lines 161-166: future.result() of the next future
RnCollect ==
    /\ pc = "rn_collect"
    /\ jobs[fidx].st = "done"
    /\ pc' = "rn_wait_lock"
    /\ UNCHANGED << jobs, fidx, progress, progress_lock >>
    /\ RnUnchanged

\* main line 168: with progress_lock
RnMainAcquire ==
    /\ pc = "rn_wait_lock"
    /\ LockIsFree(progress_lock)
    /\ progress_lock' = MainThreadId
    /\ pc' = "rn_advance"
    /\ UNCHANGED << jobs, fidx, progress >>
    /\ RnUnchanged

\* main line 169: progress.advance(task_id); the lock is released
RnAdvance ==
    /\ pc = "rn_advance"
    /\ progress' = progress + 1
    /\ progress_lock' = 0
    /\ IF fidx = Len(jobs)
       THEN /\ pc' = "rn_done"
            /\ UNCHANGED fidx
       ELSE /\ pc' = "rn_collect"
            /\ fidx' = fidx + 1
    /\ UNCHANGED jobs
    /\ RnUnchanged

RnWorker ==
    \E i \in 1..Len(jobs) :
        \/ RnStart(i)
        \/ RnAcquire(i)
        \/ RnDescribe(i)
        \/ RnWork(i)

NextPool ==
    \/ Submit
    \/ Worker
    \/ Collect
    \/ Shutdown
    \/ Store
    \/ Dump
    \/ Crash
    \/ RnWorker
    \/ RnCollect
    \/ RnMainAcquire
    \/ RnAdvance

\* the two places where the program runs a thread pool
SpecPool == (InitPool \/ InitRename) /\ [][NextPool]_vars

\* threads that are inside an update of the progress reporter
InUpdate ==
    { i \in 1..Len(jobs) : jobs[i].st \in { "locked", "describe1", "describe2" } }
        \cup (IF pc = "rn_advance" THEN { MainThreadId } ELSE {})

\* updates of the completed count that have finished
UpdatesDone ==
    IF pc \in { "rn_collect", "rn_wait_lock", "rn_advance" } THEN fidx - 1
    ELSE IF pc = "rn_done" THEN Len(jobs)
    ELSE okFetches
           + Cardinality({ i \in 1..Len(jobs) :
                             jobs[i].ret = "KeyError" \/ jobs[i].st = "released" })

\* C17: a thread is inside a progress update only while it holds
\* progress_lock, so at most one thread is inside an update at a time, and
\* the completed count equals the number of finished increments.
C17_ProgressUnderLock ==
    /\ InUpdate = IF progress_lock = 0 THEN {} ELSE { progress_lock }
    /\ progress = UpdatesDone

\* C17 witness: an increment has finished, a worker is inside the next
\* update and another worker that has its answer waits for the lock.
C17_Witness ==
    /\ progress > 0
    /\ \E i, j \in 1..Len(jobs) :
          /\ jobs[i].st = "locked"
          /\ progress_lock = i
          /\ jobs[j].st = "got"

\* work items whose request to the remote source is under way
InFlight == { i \in 1..Len(jobs) : jobs[i].st \in { "running", "hung" } }

\* C16: at most max_workers detail requests are in flight at any moment,
\* and no more work items than that are on a pool thread.
C16_AtMostFiveInFlight ==
    /\ Cardinality(InFlight) <= max_workers
    /\ Busy(jobs) <= max_workers

\* C16 witness: max_workers requests are in flight while a further
\* submitted work item waits in the queue.
C16_Witness ==
    /\ Cardinality(InFlight) = max_workers
    /\ \E i \in 1..Len(jobs) : jobs[i].st = "queued"

\* C18 as stated: in the catalog a refresh returns no two records have the
\* same (season, episode) pair, whatever the remote listings hold.
C18_Claim ==
    (pc = "returned" /\ Refreshed)
        => \A a, b \in 1..Len(result) :
              (a # b) => << result[a].season, result[a].episode >>
                            # << result[b].season, result[b].episode >>

\* C19 as stated: a pool worker never starts a request right after it
\* finished one; it waits the rate-limit delay in between.  The worker has
\* no step that waits, so no thread that has run a work item of the season
\* takes another one: every work item that starts is the first of its thread.
C19_Claim ==
    [][ \A i \in 1..Len(jobs) :
          (i <= Len(jobs') /\ jobs[i].st = "queued" /\ jobs'[i].st = "running")
              => used' = used + 1 ]_vars

\* C20 as stated: after a crash during the save the cache file holds the
\* complete previous catalog or the complete new one.
C20_Claim ==
    (pc = "crashed")
        => \/ file = fileAtCall
           \/ /\ file.kind = "json"
              /\ PersistedRecords(file) = episodes

\* ---------------------------------------------- renaming and tagging files
\* the routines that work through the video files of a directory
FileRoutines == { "rename_files", "process_episode", "process_mkv_files" }

\* the video files of a directory, in the order glob("*.mkv") gives them:
\* one to MaxFiles files with distinct names
FilesInputs ==
    { q \in UNION { [1..n -> InputNames] : n \in 1..MaxFiles } :
        \A a, b \in DOMAIN q : (a # b) => q[a] # q[b] }

\* the files of a list that are in a set of positions, in the order of the
\* list
FilesAt(q, keep) ==
    LET RECURSIVE pick(_)
        pick(i) == IF i > Len(q) THEN << >>
                   ELSE IF i \in keep THEN << [filename |-> q[i]] >> \o pick(i + 1)
                   ELSE pick(i + 1)
    IN  pick(1)

\* the transcripts rename_files can be given by main (rename_episodes.py
\* lines 152-167): one for each file of which process_file returned a
\* result, in the order of mkv_files
TranscriptsOf(q) == { FilesAt(q, keep) : keep \in SUBSET (1..Len(q)) }

\* position of a name in a list of names, 0 when it is not there
IndexOf(q, n) ==
    IF \E i \in 1..Len(q) : q[i] = n
    THEN CHOOSE i \in 1..Len(q) : q[i] = n
    ELSE 0

\* the instant of the runs
FilesNow == MaxAgeDays * UnitsPerDay

\* the cache file a run finds: none; an expired one holding the first
\* episode; the catalog of season 1 saved just now; a file saved just now
\* that the process may not open
FilesCaches ==
    { AbsentFile,
      [kind |-> "json", text |-> json_dump(<< FilesCatalog[1] >>), mtime |-> 0],
      [kind |-> "json", text |-> json_dump(FilesCatalog), mtime |-> FilesNow],
      [kind |-> "unreadable", text |-> << >>, mtime |-> FilesNow] }

\* the video stream download_episode writes
DownloadedVideo == MaxFiles + 1

\* the directory from_url is given: a.mkv, with or without an episode.mkv
\* of an earlier download
FromUrlDirs ==
    { [NoDir EXCEPT ![PlainNames[1]] = VideoFile(1, << >>)],
      [NoDir EXCEPT ![PlainNames[1]] = VideoFile(1, << >>),
                    ![EpisodeMkv] = VideoFile(2, << >>)] }

\* a file routine is entered: rename_files (line 79) with the transcripts
\* main got for the video files of the directory, process_mkv_files
\* (line 237) and batch (line 388) about to work through the video files,
\* from_url (line 309) with the directory it downloads into
InitFiles ==
    /\ \/ /\ routine \in FileRoutines
          /\ mkv_files \in FilesInputs
          /\ transcripts \in IF routine = "rename_files"
                             THEN TranscriptsOf(mkv_files)
                             ELSE { FilesAt(mkv_files, 1..Len(mkv_files)) }
          /\ dir = [ n \in FileNames |->
                       IF IndexOf(mkv_files, n) > 0
                       THEN VideoFile(IndexOf(mkv_files, n), << >>)
                       ELSE NoFile ]
          /\ ridx = 1
       \/ /\ routine = "from_url"
          /\ mkv_files = << >>
          /\ transcripts = << >>
          /\ dir \in FromUrlDirs
          /\ ridx = 0
    /\ min_score \in IF routine = "process_mkv_files" THEN { MATCH_THRESHOLD }
                     ELSE MinScores
    /\ pc = "idle"
    /\ now = FilesNow
    /\ file \in FilesCaches
    /\ lastSaved = PersistedRecords(file)
    /\ result = << >>
    /\ fuzz = NoFuzz
    /\ matches = << >>
    /\ error = "none"
    /\ season = 0
    /\ total_episodes = 0
    /\ season_data_list = << >>
    /\ episodes = << >>
    /\ sidx = 0
    /\ jobs = << >>
    /\ fidx = 0
    /\ progress = 0
    /\ progress_lock = 0
    /\ fresh = FALSE
    /\ fileAtCall = AbsentFile
    /\ requests = 0
    /\ seasonsAsked = {}
    /\ okFetches = 0
    /\ failedFetches = 0
    /\ ticks = 0
    /\ num_threads = 0
    /\ idle_semaphore = 0
    /\ used = 0
    /\ releasing = 0

\* what a step of a file routine leaves alone outside fetch_friends_episodes
FilesUnchanged ==
    /\ UNCHANGED << now, file, result, season, total_episodes,
                    season_data_list, episodes, sidx, jobs, fidx, progress,
                    progress_lock, fresh, fileAtCall, requests, seasonsAsked,
                    okFetches, failedFetches, lastSaved, ticks >>
    /\ UNCHANGED poolVars
    /\ UNCHANGED << min_score, mkv_files >>
    /\ UNCHANGED routine

\* rename_files line 83 and process_mkv_files line 247: the routine calls
\* fetch_friends_episodes
FilesCall ==
    /\ routine \in { "rename_files", "process_mkv_files" }
    /\ pc = "idle"
    /\ Call

\* rename_files lines 86-110: one iteration of the loop over the
\* transcripts, with the scores token_set_ratio gives for this transcript
RenameFilesStep ==
    /\ routine = "rename_files"
    /\ pc = "returned"
    /\ ridx <= Len(transcripts)
    /\ \E fz \in FilesFuzz :
          LET t == transcripts[ridx]
              r == CallRank(2, fz, result)
          IN  /\ fuzz' = fz
              /\ matches' = r.value
              /\ error' = r.exc
              /\ IF MeetsThreshold(r.value, min_score)
                 THEN \* an exception of shutil.move is caught and printed
                      dir' = shutil_move(dir, t.filename,
                                 format_episode_filename(r.value[1].episode)).dir
                 ELSE dir' = dir
    /\ ridx' = ridx + 1
    /\ UNCHANGED << pc, transcripts >>
    /\ FilesUnchanged

\* download_episode, process_episode.py lines 80-125, called by from_url
\* (lines 327-331): yt-dlp and ffmpeg -y write episode.mkv into the
\* directory, over a file of that name; when one of them fails from_url
\* returns
DownloadEpisode ==
    /\ routine = "from_url"
    /\ ridx = 0
    /\ \E ok \in BOOLEAN :
          IF ok
          THEN /\ dir' = [dir EXCEPT ![EpisodeMkv] = VideoFile(DownloadedVideo, << >>)]
               /\ transcripts' = << [filename |-> EpisodeMkv] >>
          ELSE /\ UNCHANGED << dir, transcripts >>
    /\ ridx' = 1
    /\ UNCHANGED << pc, fuzz, matches, error >>
    /\ FilesUnchanged

\* a call of process_episode is under way for the file at ridx: by batch
\* (lines 388-390) or by from_url (line 334) for the downloaded file
InProcessEpisode ==
    /\ routine \in { "process_episode", "from_url" }
    /\ ridx >= 1
    /\ ridx <= Len(transcripts)

\* process_episode lines 230-244: the audio cannot be extracted (line 237)
\* or the transcription gives nothing (line 243); the call returns False
\* before the catalog is fetched
ProcessEpisodeEarlyReturn ==
    /\ InProcessEpisode
    /\ pc = "idle"
    /\ matches' = << >>
    /\ fuzz' = NoFuzz
    /\ ridx' = ridx + 1
    /\ UNCHANGED << pc, error, dir, transcripts >>
    /\ FilesUnchanged

\* process_episode lines 230-261: audio and transcript are there, the
\* catalog is fetched
ProcessEpisodeFetch ==
    /\ InProcessEpisode
    /\ pc = "idle"
    /\ Call

\* process_episode lines 262-306 after fetch_friends_episodes has returned
\* or raised: the transcript is ranked; any exception ends the call with
\* False
ProcessEpisodeStep ==
    /\ InProcessEpisode
    /\ pc \in { "returned", "raised" }
    /\ \E fz \in FilesFuzz :
          LET t == transcripts[ridx]
              r == IF pc = "returned" THEN CallRank(3, fz, result)
                   ELSE [exc |-> error, value |-> << >>]
          IN  /\ fuzz' = IF pc = "returned" THEN fz ELSE NoFuzz
              /\ matches' = r.value
              /\ error' = r.exc
              /\ IF r.exc = "none" /\ MeetsThreshold(r.value, min_score)
                 THEN \E ffmpeg_ok \in BOOLEAN :
                        LET u == pe_update_mkv_metadata(dir, t.filename,
                                                     r.value[1].episode, ffmpeg_ok)
                        IN  dir' = IF u.ok
                                   THEN shutil_move(u.dir, t.filename,
                                           format_episode_filename(r.value[1].episode)).dir
                                   ELSE dir
                 ELSE dir' = dir
    /\ ridx' = ridx + 1
    /\ pc' = "idle"
    /\ UNCHANGED transcripts
    /\ FilesUnchanged

\* process_mkv_files lines 248-250: without a catalog no file is processed;
\* lines 253-287: one iteration of the loop over the video files. The
\* transcript is ranked when the audio was extracted (line 261) and the
\* transcription gave a text (line 265), with the scores token_set_ratio
\* gives for it; else the iteration ends and matches keeps the list of an
\* earlier iteration
ProcessMkvStep ==
    /\ routine = "process_mkv_files"
    /\ pc = "returned"
    /\ ridx <= Len(transcripts)
    /\ IF result = << >>
       THEN /\ ridx' = Len(transcripts) + 1
            /\ UNCHANGED << dir, fuzz, matches, error >>
       ELSE \/ /\ ridx' = ridx + 1
               /\ UNCHANGED << dir, fuzz, matches, error >>
            \/ \E fz \in FilesFuzz :
                 LET t == transcripts[ridx]
                     r == CallRank(2, fz, result)
                 IN  /\ fuzz' = fz
                     /\ matches' = r.value
                     /\ error' = r.exc
                     /\ ridx' = ridx + 1
                     /\ IF MeetsThreshold(r.value, MATCH_THRESHOLD)
                        THEN \E outcome \in UpdateOutcomes :
                               dir' = update_mkv_metadata(dir, t.filename,
                                          r.value[1].episode, outcome).dir
                        ELSE dir' = dir
    /\ UNCHANGED << pc, transcripts >>
    /\ FilesUnchanged

\* process_mkv_files line 261: ffmpeg cannot be started; subprocess.run
\* raises FileNotFoundError, which extract_audio_from_mkv does not catch,
\* and the exception leaves process_mkv_files in this iteration: no file
\* after this one is worked on
ProcessMkvRaise ==
    /\ routine = "process_mkv_files"
    /\ pc = "returned"
    /\ ridx <= Len(transcripts)
    /\ result # << >>
    /\ ridx' = ridx + 1
    /\ routine' = "none"
    /\ UNCHANGED << pc, transcripts, dir, fuzz, matches, error >>
    /\ UNCHANGED << now, file, result, season, total_episodes,
                    season_data_list, episodes, sidx, jobs, fidx, progress,
                    progress_lock, fresh, fileAtCall, requests, seasonsAsked,
                    okFetches, failedFetches, lastSaved, ticks >>
    /\ UNCHANGED poolVars
    /\ UNCHANGED << min_score, mkv_files >>

\* the steps of fetch_friends_episodes, in the calling thread and in the
\* pool threads, and the death of the process during the save
FilesFetchStep ==
    \/ FetchSeason
    \/ Submit
    \/ Worker
    \/ Collect
    \/ Shutdown
    \/ Store
    \/ Dump
    \/ Crash

NextFiles ==
    \/ FilesCall
    \/ FilesFetchStep
    \/ RenameFilesStep
    \/ DownloadEpisode
    \/ ProcessEpisodeEarlyReturn
    \/ ProcessEpisodeFetch
    \/ ProcessEpisodeStep
    \/ ProcessMkvStep
    \/ ProcessMkvRaise

SpecFiles == InitFiles /\ [][NextFiles]_vars

\* the run of a file routine is over
FilesDone ==
    /\ routine \in FileRoutines
    /\ ridx > Len(transcripts)
    /\ pc = IF routine = "process_episode" THEN "idle" ELSE "returned"

\* names that hold a file
Present(d) == { n \in DOMAIN d : d[n] # NoFile }

\* C21 as stated: renaming never destroys a file; after a run the directory
\* holds as many video files as before it, also when several input files
\* have the same best-matching episode.
C21_Claim ==
    (routine \in { "rename_files", "process_episode" } /\ FilesDone)
        => Cardinality(Present(dir)) = Len(mkv_files)

\* the minimum score the routine applies
ThresholdOf(r) ==
    IF r = "process_mkv_files" THEN MATCH_THRESHOLD ELSE min_score

\* the iteration, or the call of process_episode, for the file at ridx - 1
\* has ended: matches is the ranked list of that file, or in
\* process_mkv_files of an earlier one when this one was not ranked
JustRanked ==
    /\ routine \in FileRoutines
    /\ ridx > 1
    /\ ridx <= Len(transcripts) + 1
    /\ pc \in { "idle", "returned" }
    /\ ~(routine = "process_mkv_files" /\ result = << >>)

\* C22 as stated: a file whose ranked list is empty or whose best score is
\* below the minimum score keeps its name and its content.
C22_Claim ==
    (JustRanked /\ ~MeetsThreshold(matches, ThresholdOf(routine)))
        => dir[transcripts[ridx - 1].filename] =
               VideoFile(IndexOf(mkv_files, transcripts[ridx - 1].filename), << >>)

====
